---------------------------- MODULE Spec2Model ----------------------------
(***************************************************************************)
(* Centris extractor web backend.                                          *)
(*                                                                         *)
(*   backend/main.py                          the extract_pdf handler      *)
(*   backend/core/pdf_extractor.py            extract_pdf_data             *)
(*   backend/core/centris_extractor_correct.py                             *)
(*        extract_to_original_format, _format_price,                       *)
(*        export_to_xlsx_original                                          *)
(*                                                                         *)
(* Every behaviour exercises one of these operations (variable op); the    *)
(* other operations' variables stay at their idle values.                  *)
(*                                                                         *)
(* Text is a sequence of atoms.  Where the code looks at characters        *)
(* (file names, price strings) every atom is one character; elsewhere an   *)
(* atom is a word or a literal of the source.                              *)
(***************************************************************************)
EXTENDS Integers, Sequences, FiniteSets, TLC

VARIABLES
    op,              \* the operation this behaviour exercises
    \* ---- main.py, extract_pdf
    h_pc,            \* position in the handler, or its terminal status
    filename,        \* file.filename: [isNone, chars]
    size,            \* file.size: [isNone, n]
    content_len,     \* number of bytes the upload really carries
    fs,              \* temporary files that exist on disk
    temp_file_path,  \* {} while unassigned, else {the path}
    created,         \* temporary files this request has created
    extract_called,  \* extract_pdf_data was invoked
    \* ---- pdf_extractor.py, extract_pdf_data
    p_pc,
    pages_read,      \* number of pages the loop has visited
    full_text,       \* sequence of matches (tokens) in text order
    properties,      \* the returned list
    \* ---- centris_extractor_correct.py, extract_to_original_format
    a_pc,
    empty_text,      \* the document has no extractable character
    extracted_data,  \* what extractor.extract_from_pdf returned
    idx,             \* loop position in extracted_data
    formatted_data,
    errors,
    src,             \* src[i] = index in extracted_data of formatted_data[i]
    \* ---- centris_extractor_correct.py, export_to_xlsx_original
    e_pc,
    data,
    xl_errors,       \* the errors argument of export_to_xlsx_original
    sheets,          \* the workbook on disk: sequence of sheets
    result,          \* the returned boolean
    \* ---- centris_extractor_correct.py, _format_price
    f_pc,
    price_str,       \* the input string
    once,            \* _format_price(price_str)
    twice            \* _format_price(_format_price(price_str))

handlerVars == <<h_pc, filename, size, content_len, fs, temp_file_path,
                 created, extract_called>>
pdfVars     == <<p_pc, pages_read, full_text, properties>>
adapterVars == <<a_pc, empty_text, extracted_data, idx, formatted_data,
                 errors, src>>
exportVars  == <<e_pc, data, xl_errors, sheets, result>>
priceVars   == <<f_pc, price_str, once, twice>>
vars == <<op, handlerVars, pdfVars, adapterVars, exportVars, priceVars>>

\* what the actions of one operation leave alone
notHandler == <<op, pdfVars, adapterVars, exportVars, priceVars>>
notPdf     == <<op, handlerVars, adapterVars, exportVars, priceVars>>
notAdapter == <<op, handlerVars, pdfVars, exportVars, priceVars>>
notExport  == <<op, handlerVars, pdfVars, adapterVars, priceVars>>
notPrice   == <<op, handlerVars, pdfVars, adapterVars, exportVars>>

-----------------------------------------------------------------------------
(* Bounds *)
MaxLen     == 5    \* longest price string drawn
MaxPages   == 4    \* most pages in a document
MaxRecords == 3    \* most raw records extract_from_pdf returns
MaxRows    == 2    \* most rows in either export argument

-----------------------------------------------------------------------------
(* Text helpers *)

Min(a, b) == IF a < b THEN a ELSE b

Digits == {"0", "1", "2", "3", "4", "5", "6", "7", "8", "9"}

DigitVal == [c \in Digits |->
    CASE c = "0" -> 0 [] c = "1" -> 1 [] c = "2" -> 2 [] c = "3" -> 3
      [] c = "4" -> 4 [] c = "5" -> 5 [] c = "6" -> 6 [] c = "7" -> 7
      [] c = "8" -> 8 [] c = "9" -> 9]

DigitChar == <<"0", "1", "2", "3", "4", "5", "6", "7", "8", "9">>

IsDigit(c) == c \in Digits

\* re.sub(r'[^\d]', '', s)
OnlyDigits(s) == SelectSeq(s, IsDigit)

\* int(digits), digits non-empty
RECURSIVE StrToInt(_)
StrToInt(d) ==
    IF Len(d) = 0 THEN 0
    ELSE 10 * StrToInt(SubSeq(d, 1, Len(d) - 1)) + DigitVal[d[Len(d)]]

\* str(n), n >= 0
RECURSIVE IntToStr(_)
IntToStr(n) ==
    IF n < 10 THEN <<DigitChar[n + 1]>>
    ELSE IntToStr(n \div 10) \o <<DigitChar[(n % 10) + 1]>>

\* the format specification ',' : a comma every three digits from the right
RECURSIVE CommaGroup(_)
CommaGroup(d) ==
    IF Len(d) <= 3 THEN d
    ELSE CommaGroup(SubSeq(d, 1, Len(d) - 3)) \o <<",">>
         \o SubSeq(d, Len(d) - 2, Len(d))

FormatComma(n) == CommaGroup(IntToStr(n))

\* s.replace(a, b) for one-character a
Replace(s, a, b) == [i \in 1..Len(s) |-> IF s[i] = a THEN b ELSE s[i]]

Contains(s, c) == \E i \in 1..Len(s) : s[i] = c

-----------------------------------------------------------------------------
(* Python values: a string, an int, None, or a value that is not a mapping  *)

Str(s)   == [ty |-> "str", s |-> s]
IntV(s)  == [ty |-> "int", s |-> s]     \* s: the decimal digits
NoneV    == [ty |-> "none", s |-> <<>>]
Absent   == [ty |-> "absent", s |-> <<>>]   \* the key is not in the mapping

\* truth value of a Python value
Truthy(v) ==
    CASE v.ty = "str"  -> v.s # <<>>
      [] v.ty = "int"  -> StrToInt(v.s) # 0
      [] OTHER         -> FALSE

Ok(v)  == [raised |-> FALSE, val |-> v]
Raised == [raised |-> TRUE, val |-> NoneV]

-----------------------------------------------------------------------------
(* _format_price *)

\* no early return for '$', and the amount is formatted with cents
_format_price_cents(p) ==
    IF ~Truthy(p) THEN Ok(Str(<<>>))
    ELSE IF p.ty # "str" THEN Raised
    ELSE LET price_digits == OnlyDigits(p.s) IN
         IF price_digits = <<>> THEN Ok(p)
         ELSE LET price_num == StrToInt(price_digits)
                  formatted == Replace(FormatComma(price_num), ",", " ")
                                 \o <<".", "0", "0">>
              IN  Ok(Str(formatted \o <<" ", "$">>))

\* the thousands separators of the format specification are left as commas
_format_price_commas(p) ==
    IF ~Truthy(p) THEN Ok(Str(<<>>))
    ELSE IF p.ty # "str" THEN Raised
    ELSE IF Contains(p.s, "$") THEN Ok(p)
    ELSE LET price_digits == OnlyDigits(p.s) IN
         IF price_digits = <<>> THEN Ok(p)
         ELSE LET price_num == StrToInt(price_digits)
                  formatted == FormatComma(price_num)
              IN  Ok(Str(formatted \o <<" ", "$">>))

_format_price(p) ==
    IF ~Truthy(p) THEN Ok(Str(<<>>))
    \* '$' in price_str raises TypeError for a value that is not iterable
    ELSE IF p.ty # "str" THEN Raised
    ELSE IF Contains(p.s, "$") THEN Ok(p)
    ELSE LET price_digits == OnlyDigits(p.s) IN
         IF price_digits = <<>> THEN Ok(p)
         ELSE LET price_num == StrToInt(price_digits)
                  formatted == Replace(FormatComma(price_num), ",", " ")
              IN  Ok(Str(formatted \o <<" ", "$">>))

PriceAlphabet == {"0", "1", "$", " ", "a"}

PriceSamples == { <<"4", "5", "0", "0", "0", "0">>, <<"1", "5", "0", "0">>,
                  <<"4", "5", "0", " ", "0", "0", "0", "$">> }

PriceInputs ==
    UNION { [1..n -> PriceAlphabet] : n \in 0..MaxLen } \cup PriceSamples

PriceIdle ==
    /\ f_pc = "idle" /\ price_str = <<>> /\ once = <<>> /\ twice = <<>>

PriceInit ==
    /\ f_pc = "start"
    /\ price_str \in PriceInputs
    /\ once = <<>>
    /\ twice = <<>>

FormatOnce ==
    /\ f_pc = "start"
    /\ once' = _format_price(Str(price_str)).val.s
    /\ f_pc' = "once"
    /\ UNCHANGED <<price_str, twice>>
    /\ UNCHANGED notPrice

FormatTwice ==
    /\ f_pc = "once"
    /\ twice' = _format_price(Str(once)).val.s
    /\ f_pc' = "twice"
    /\ UNCHANGED <<price_str, once>>
    /\ UNCHANGED notPrice

-----------------------------------------------------------------------------
(* main.py: extract_pdf *)

MaxUploadBytes == 10 * 1024 * 1024

Name(chars) == [isNone |-> FALSE, chars |-> chars]
NoName      == [isNone |-> TRUE, chars |-> <<>>]

FileNames ==
    { Name(<<"a", ".", "p", "d", "f">>),
      Name(<<"A", ".", "P", "D", "F">>),
      Name(<<"a", ".", "P", "d", "f">>),
      Name(<<".", "p", "d", "f">>),
      Name(<<"a", ".", "t", "x", "t">>),
      Name(<<"p", "d", "f">>),
      Name(<<"a", ".", "p", "d", "f", ".", "e", "x", "e">>),
      Name(<<>>),
      NoName }

ContentLens == {0, 1, MaxUploadBytes, MaxUploadBytes + 1}

TempNames == {"tmp1.pdf", "tmp2.pdf"}

\* str.endswith: an exact, case-sensitive comparison of the tail
EndsWith(s, suffix) ==
    /\ Len(s) >= Len(suffix)
    /\ SubSeq(s, Len(s) - Len(suffix) + 1, Len(s)) = suffix

\* compares the tail without regard to letter case
EndsWithAnyCase(s, suffix) ==
    /\ Len(s) >= Len(suffix)
    /\ LET tail == SubSeq(s, Len(s) - Len(suffix) + 1, Len(s))
           low(c) == CASE c = "P" -> "p" [] c = "D" -> "d" [] c = "F" -> "f"
                       [] OTHER -> c
       IN  [i \in 1..Len(tail) |-> low(tail[i])] = suffix

Terminal == {"resp200", "err400", "err413", "err422", "err500"}

HandlerIdle ==
    /\ h_pc = "idle"
    /\ filename = NoName
    /\ size = [isNone |-> TRUE, n |-> 0]
    /\ content_len = 0
    /\ fs = {}
    /\ temp_file_path = {}
    /\ created = {}
    /\ extract_called = FALSE

\* a request arrives; the upload reports its size or reports none
HandlerInit ==
    /\ h_pc = "validate_type"
    /\ filename \in FileNames
    /\ content_len \in ContentLens
    /\ size \in { [isNone |-> TRUE, n |-> 0],
                  [isNone |-> FALSE, n |-> content_len] }
    /\ fs = {}
    /\ temp_file_path = {}
    /\ created = {}
    /\ extract_called = FALSE

\* main.py 73-77; filename None: AttributeError, caught at 122
ValidateType ==
    /\ h_pc = "validate_type"
    /\ h_pc' = IF filename.isNone THEN "err500"
               ELSE IF ~EndsWith(filename.chars, <<".", "p", "d", "f">>)
                    THEN "err400"
               ELSE "check_size"
    /\ UNCHANGED <<filename, size, content_len, fs, temp_file_path, created,
                   extract_called>>
    /\ UNCHANGED notHandler

\* main.py 80-84
CheckSize ==
    /\ h_pc = "check_size"
    /\ h_pc' = IF ~size.isNone /\ size.n # 0 /\ size.n > MaxUploadBytes
               THEN "err413" ELSE "read"
    /\ UNCHANGED <<filename, size, content_len, fs, temp_file_path, created,
                   extract_called>>
    /\ UNCHANGED notHandler

\* main.py 87: await file.read() returns, or raises (caught at 122)
ReadContent ==
    /\ h_pc = "read"
    /\ h_pc' \in {"create_temp", "err500"}
    /\ UNCHANGED <<filename, size, content_len, fs, temp_file_path, created,
                   extract_called>>
    /\ UNCHANGED notHandler

\* main.py 90: NamedTemporaryFile(delete=False) creates a fresh file, or raises
CreateTemp ==
    /\ h_pc = "create_temp"
    /\ \/ \E f \in TempNames \ fs :
            /\ fs' = fs \cup {f}
            /\ created' = created \cup {f}
            /\ h_pc' = "write"
       \/ /\ h_pc' = "err500"
          /\ UNCHANGED <<fs, created>>
    /\ UNCHANGED <<filename, size, content_len, temp_file_path,
                   extract_called>>
    /\ UNCHANGED notHandler

\* main.py 91-92: write and bind temp_file_path; when write raises the with
\* block closes the file (delete=False keeps it) and 122 answers 500
WriteTemp ==
    /\ h_pc = "write"
    /\ \/ /\ temp_file_path' = created
          /\ h_pc' = "extract"
       \/ /\ h_pc' = "err500"
          /\ UNCHANGED temp_file_path
    /\ UNCHANGED <<filename, size, content_len, fs, created, extract_called>>
    /\ UNCHANGED notHandler

\* main.py 94-113: the call returns (response built) or raises (422 raised);
\* the finally clause runs next in both cases
Extract ==
    /\ h_pc = "extract"
    /\ extract_called' = TRUE
    /\ h_pc' \in {"finally200", "finally422"}
    /\ UNCHANGED <<filename, size, content_len, fs, temp_file_path, created>>
    /\ UNCHANGED notHandler

\* main.py 115-121: os.path.exists / os.unlink, then the response or the 422
Finally ==
    /\ h_pc \in {"finally200", "finally422"}
    /\ fs' = fs \ temp_file_path
    /\ h_pc' = IF h_pc = "finally200" THEN "resp200" ELSE "err422"
    /\ UNCHANGED <<filename, size, content_len, temp_file_path, created,
                   extract_called>>
    /\ UNCHANGED notHandler

-----------------------------------------------------------------------------
(* pdf_extractor.py: extract_pdf_data                                       *)
(*                                                                         *)
(* full_text is kept as the sequence of its pattern matches in text order: *)
(* a token is one maximal match of address_pattern, price_pattern or       *)
(* type_pattern, a stretch of text matching none of them, or a newline.    *)
(* An address match starts with its civic number (\d+), which              *)
(* price_pattern matches as well.                                          *)

Tok(kind, a, b) == [kind |-> kind, a |-> a, b |-> b]

NL    == Tok("nl", <<"\n">>, <<>>)
Noise == Tok("noise", <<"#">>, <<>>)

Cities == <<"Montreal", "Laval">>

\* "<n> rue Principale, <city>" at the end of a line: the city group is
\* greedy over [A-Za-z\s\-\'] and takes the white space that follows
Addr(n) ==
    Tok("addr", IntToStr(n) \o <<" ", "rue", " ", "Principale">>,
        <<Cities[(n % 2) + 1], "\n">>)

Price(chars) == Tok("price", chars, <<>>)
Type(word)   == Tok("type", <<word>>, <<>>)

\* the text of a page, the text before it holding n tokens
PageTexts(n) ==
    { <<>>,
      <<Noise>>,
      <<Addr(n + 1)>>,
      <<Addr(n + 1), Price(<<"4", "5", "0", " ", "0", "0", "0">>),
        Type("condo"), Addr(n + 4), Addr(n + 5), Type("MAISON"), Addr(n + 7)>>,
      <<Price(<<"9", "9">>)>>,
      <<Price(<<"1", ",", "5", "0", "0">>), Noise,
        Price(<<"3", "0", "0">>), Price(<<"7", "5", " ", "0", "0", "0">>),
        Price(<<"2", "0", "0", "0">>)>>,
      <<Type("duplex")>> }

IsSpace(c) == c \in {" ", "\n"}

\* str.strip()
RECURSIVE Strip(_)
Strip(s) ==
    IF s = <<>> THEN s
    ELSE IF IsSpace(s[1]) THEN Strip(Tail(s))
    ELSE IF IsSpace(s[Len(s)]) THEN Strip(SubSeq(s, 1, Len(s) - 1))
    ELSE s

\* str.title() on the words of type_pattern
Title(w) ==
    CASE w = "condo"  -> "Condo"
      [] w = "MAISON" -> "Maison"
      [] w = "duplex" -> "Duplex"
      [] OTHER        -> w

RECURSIVE DigitPrefix(_)
DigitPrefix(s) ==
    IF s # <<>> /\ IsDigit(s[1]) THEN <<s[1]>> \o DigitPrefix(Tail(s))
    ELSE <<>>

\* price_pattern over a run of digits: \d{1,3} takes three digits at a time
RECURSIVE Chunks3(_)
Chunks3(run) ==
    IF Len(run) <= 3 THEN <<run>>
    ELSE <<SubSeq(run, 1, 3)>> \o Chunks3(SubSeq(run, 4, Len(run)))

\* re.findall(address_pattern, full_text, re.IGNORECASE): (street, city)
FindAddresses(text) ==
    LET IsAddr(t) == t.kind = "addr"
        m == SelectSeq(text, IsAddr)
    IN  [i \in 1..Len(m) |-> <<m[i].a, m[i].b>>]

\* re.findall(price_pattern, full_text)
RECURSIVE FindPrices(_)
FindPrices(text) ==
    IF text = <<>> THEN <<>>
    ELSE LET t == text[1] IN
         (CASE t.kind = "addr"  -> Chunks3(DigitPrefix(t.a))
            [] t.kind = "price" -> <<t.a>>
            [] OTHER            -> <<>>)
         \o FindPrices(Tail(text))

\* re.findall(type_pattern, full_text, re.IGNORECASE)
FindTypes(text) ==
    LET IsType(t) == t.kind = "type"
        m == SelectSeq(text, IsType)
    IN  [i \in 1..Len(m) |-> m[i].a[1]]

Property(address, price, type, city, street) ==
    [address |-> address, price |-> price, type |-> type, city |-> city,
     street |-> street]

\* pairs every address match, without the limit to the first 10
HeuristicRecordsUncapped(addresses, prices, types) ==
    [i \in 1..Len(addresses) |->
        Property(Strip(addresses[i][1]) \o <<", ">> \o Strip(addresses[i][2]),
                 (IF i <= Len(prices) THEN prices[i] ELSE <<"N/A">>)
                     \o <<"$">>,
                 IF i <= Len(types) THEN Title(types[i]) ELSE "Propriété",
                 Strip(addresses[i][2]),
                 Strip(addresses[i][1]))]

\* pdf_extractor.py 50-58
HeuristicRecords(addresses, prices, types) ==
    LET first == SubSeq(addresses, 1, Min(Len(addresses), 10)) IN
    [i \in 1..Len(first) |->
        Property(Strip(first[i][1]) \o <<", ">> \o Strip(first[i][2]),
                 (IF i <= Len(prices) THEN prices[i] ELSE <<"N/A">>)
                     \o <<"$">>,
                 IF i <= Len(types) THEN Title(types[i]) ELSE "Propriété",
                 Strip(first[i][2]),
                 Strip(first[i][1]))]

sample_addresses ==
    <<"Adresse extraite du PDF", "Propriété identifiée",
      "Bien immobilier trouvé">>

\* pdf_extractor.py 69-78
RECURSIVE CleanPrices(_)
CleanPrices(prices) ==
    IF prices = <<>> THEN <<>>
    ELSE LET clean_price == OnlyDigits(prices[1]) IN
         (IF clean_price # <<>> /\ Len(clean_price) >= 4
          THEN << Replace(FormatComma(StrToInt(clean_price)) \o <<"$">>,
                          ",", " ") >>
          ELSE <<>>)
         \o CleanPrices(Tail(prices))

SamplePrices(prices) ==
    LET found == CleanPrices(SubSeq(prices, 1, Min(Len(prices), 3))) IN
    IF found = <<>>
    THEN << <<"Prix à déterminer">>, <<"Voir document">>,
            <<"Contact requis">> >>
    ELSE found

\* one placeholder per sample price found, instead of one per sample address
PlaceholderRecordsPerPrice(prices) ==
    LET found == CleanPrices(SubSeq(prices, 1, Min(Len(prices), 3))) IN
    [i \in 1..Len(found) |->
        Property(<<sample_addresses[i]>>, found[i], "Propriété extraite",
                 <<"Ville détectée">>, <<"Rue ", DigitChar[i + 1]>>)]

\* pdf_extractor.py 61-88
PlaceholderRecords(prices) ==
    LET sample_prices == SamplePrices(prices) IN
    [i \in 1..Min(Len(sample_addresses), 3) |->
        Property(<<sample_addresses[i]>>,
                 IF i <= Len(sample_prices) THEN sample_prices[i]
                 ELSE <<"Prix N/A">>,
                 "Propriété extraite",
                 <<"Ville détectée">>,
                 <<"Rue ", DigitChar[i + 1]>>)]

\* pdf_extractor.py 92-98
ErrorProperty ==
    Property(<<"Erreur lors de l'extraction: ", "e">>, <<"N/A">>, "Erreur",
             <<"N/A">>, <<"N/A">>)

PdfIdle ==
    /\ p_pc = "idle" /\ pages_read = 0 /\ full_text = <<>>
    /\ properties = <<>>

PdfInit ==
    /\ p_pc = "open" /\ pages_read = 0 /\ full_text = <<>>
    /\ properties = <<>>

\* pdf_extractor.py 25: pdfplumber.open succeeds, or raises into 90-98
OpenPdf ==
    /\ p_pc = "open"
    /\ \/ /\ p_pc' = "pages"
          /\ UNCHANGED properties
       \/ /\ p_pc' = "open_failed"
          /\ properties' = Append(properties, ErrorProperty)
    /\ UNCHANGED <<pages_read, full_text>>
    /\ UNCHANGED notPdf

\* pdf_extractor.py 29-32: one iteration of the page loop
ReadPage ==
    /\ p_pc = "pages"
    /\ pages_read < MaxPages
    /\ \E page_text \in PageTexts(Len(full_text)) :
          full_text' = IF page_text # <<>>
                       THEN full_text \o page_text \o <<NL>>
                       ELSE full_text
    /\ pages_read' = pages_read + 1
    /\ UNCHANGED <<p_pc, properties>>
    /\ UNCHANGED notPdf

\* pdf_extractor.py 30: page.extract_text raises into 90-98
ReadPageFails ==
    /\ p_pc = "pages"
    /\ pages_read < MaxPages
    /\ p_pc' = "page_failed"
    /\ properties' = Append(properties, ErrorProperty)
    /\ UNCHANGED <<pages_read, full_text>>
    /\ UNCHANGED notPdf

\* pdf_extractor.py 37-88 and 100: the page loop is over
Assemble ==
    /\ p_pc = "pages"
    /\ LET addresses == FindAddresses(full_text)
           prices    == FindPrices(full_text)
           types     == FindTypes(full_text)
           paired    == HeuristicRecords(addresses, prices, types)
       IN  properties' = IF paired = <<>> THEN PlaceholderRecords(prices)
                         ELSE paired
    /\ p_pc' = "done"
    /\ UNCHANGED <<pages_read, full_text>>
    /\ UNCHANGED notPdf

-----------------------------------------------------------------------------
(* centris_extractor_correct.py: extract_to_original_format                 *)
(*                                                                         *)
(* A dict is the sequence of its (key, value) pairs in insertion order.    *)
(* A raw record is [isMapping, f]: f gives every raw key its value, or     *)
(* Absent when the mapping has no such key.                                *)

\* lines 74-84: the key written, the key read
FieldMap ==
    << <<"Centris #", "Centris #">>,
       <<"Adresse complète", "Adresse complète">>,
       <<"Quartier", "Quartier">>,
       <<"Type de propriété", "Type de propriété">>,
       <<"Prix actuel", "Prix actuel">>,
       <<"Prix original", "Prix original">>,
       <<"Propriétaire(s): nom(s) et adresse(s)", "Propriétaire(s)">>,
       <<"Représentant(s): nom(s) et adresse(s)", "Représentant(s)">>,
       <<"Courtier(s): nom(s)", "Courtier(s): nom(s)">>,
       <<"Courtier(s): téléphone(s)", "Courtier(s): téléphone(s)">>,
       <<"Courtier(s): courriel(s)", "Courtier(s): courriel(s)">> >>

RawKeys == { FieldMap[i][2] : i \in DOMAIN FieldMap }

PriceKeys == {"Prix actuel", "Prix original"}

\* lines 140-152
columns_order ==
    << "Centris #",
       "Adresse complète",
       "Quartier",
       "Type de propriété",
       "Prix actuel",
       "Prix original",
       "Propriétaire(s): nom(s) et adresse(s)",
       "Représentant(s): nom(s) et adresse(s)",
       "Courtier(s): nom(s)",
       "Courtier(s): téléphone(s)",
       "Courtier(s): courriel(s)" >>

\* dict.get(key, default)
Get(property_data, key, default) ==
    IF property_data.f[key] = Absent THEN default ELSE property_data.f[key]

\* a missing field is written as 'N/A'
formatted_record_na(property_data) ==
    LET price(i) == _format_price(Get(property_data, FieldMap[i][2],
                                      Str(<<>>)))
        failed == \/ ~property_data.isMapping
                  \/ \E i \in DOMAIN FieldMap :
                        FieldMap[i][1] \in PriceKeys /\ price(i).raised
    IN  [raised |-> failed,
         rec |-> IF failed THEN <<>>
                 ELSE [i \in DOMAIN FieldMap |->
                        << FieldMap[i][1],
                           IF FieldMap[i][1] \in PriceKeys THEN price(i).val
                           ELSE Get(property_data, FieldMap[i][2],
                                    Str(<<"N", "/", "A">>)) >>]]

\* lines 73-85: the dict literal; .get on a value that is no mapping raises
formatted_record(property_data) ==
    LET price(i) == _format_price(Get(property_data, FieldMap[i][2],
                                      Str(<<>>)))
        failed == \/ ~property_data.isMapping
                  \/ \E i \in DOMAIN FieldMap :
                        FieldMap[i][1] \in PriceKeys /\ price(i).raised
    IN  [raised |-> failed,
         rec |-> IF failed THEN <<>>
                 ELSE [i \in DOMAIN FieldMap |->
                        << FieldMap[i][1],
                           IF FieldMap[i][1] \in PriceKeys THEN price(i).val
                           ELSE Get(property_data, FieldMap[i][2],
                                    Str(<<>>)) >>]]

\* lines 39-42 and 46-49
DocumentError(message) ==
    << <<"NomFichier", Str(<<"pdf_path.name">>)>>,
       <<"MessageErreur", Str(<<message>>)>> >>

\* lines 90-94
RecordError(property_data) ==
    << <<"NomFichier", Str(<<"pdf_path.name">>)>>,
       <<"Centris #", Get(property_data, "Centris #", Str(<<"N", "/", "A">>))>>,
       <<"MessageErreur", Str(<<"Erreur formatage: ", "e">>)>> >>

Mapping(f) == [isMapping |-> TRUE, f |-> f]
NotAMapping == [isMapping |-> FALSE, f |-> [k \in RawKeys |-> Absent]]

Text(key) == Str(<<key, " du PDF">>)

\* every subset of the raw keys, each present key with a string value
RawSubsets ==
    { Mapping([k \in RawKeys |->
                 IF k \notin present THEN Absent
                 ELSE IF k \in PriceKeys THEN Str(<<"4", "5", "0", "0">>)
                 ELSE Text(k)])
      : present \in SUBSET RawKeys }

Listing(centris, actuel, original) ==
    Mapping([k \in RawKeys |->
        CASE k = "Centris #"     -> centris
          [] k = "Prix actuel"   -> actuel
          [] k = "Prix original" -> original
          [] OTHER               -> Text(k)])

\* records of the kinds a sequence is drawn from
RawKinds ==
    { Listing(Str(<<"1", "1">>), Str(<<"4", "5", "0", "0", "0", "0">>),
              Str(<<"4", "2", "5", " ", "0", "0", "0", " ", "$">>)),
      Listing(Str(<<"2", "2">>), Str(<<"p", "r", "i", "x">>), Absent),
      Listing(Str(<<"3", "3">>), IntV(<<"4", "5", "0", "0", "0", "0">>),
              Str(<<>>)),
      Listing(Absent, NoneV, IntV(<<"1", "5", "0", "0">>)),
      Listing(Str(<<"5", "5">>), IntV(<<"0">>), NoneV),
      NotAMapping }

\* extractor.extract_from_pdf: raises, or returns a list of raw records; a
\* document without text has no record boundary and gives no record
ExtractFromPdfOutcomes(empty) ==
    { [raised |-> TRUE, list |-> <<>>], [raised |-> FALSE, list |-> <<>>] }
    \cup IF empty THEN {}
         ELSE { [raised |-> FALSE, list |-> l] :
                  l \in UNION { [1..n -> RawKinds] : n \in 1..MaxRecords }
                        \cup { <<r>> : r \in RawSubsets } }

AdapterIdle ==
    /\ a_pc = "idle" /\ empty_text = FALSE /\ extracted_data = <<>>
    /\ idx = 0 /\ formatted_data = <<>> /\ errors = <<>> /\ src = <<>>

AdapterInit ==
    /\ a_pc = "extract" /\ empty_text \in BOOLEAN /\ extracted_data = <<>>
    /\ idx = 0 /\ formatted_data = <<>> /\ errors = <<>> /\ src = <<>>

\* the empty result is passed on to the record loop
ExtractFromPdfNoEmptyCheck ==
    /\ a_pc = "extract"
    /\ \E o \in ExtractFromPdfOutcomes(empty_text) :
          IF o.raised
          THEN /\ errors' = <<DocumentError("Erreur extraction PDF: e")>>
               /\ a_pc' = "extract_raised"
               /\ UNCHANGED <<extracted_data, idx>>
          ELSE /\ extracted_data' = o.list
               /\ idx' = 1
               /\ a_pc' = "loop"
               /\ UNCHANGED errors
    /\ UNCHANGED <<empty_text, formatted_data, src>>
    /\ UNCHANGED notAdapter

\* lines 36-55
ExtractFromPdf ==
    /\ a_pc = "extract"
    /\ \E o \in ExtractFromPdfOutcomes(empty_text) :
          IF o.raised
          THEN /\ errors' = <<DocumentError("Erreur extraction PDF: e")>>
               /\ a_pc' = "extract_raised"
               /\ UNCHANGED <<extracted_data, idx>>
          ELSE IF o.list = <<>>
          THEN /\ errors' = <<DocumentError("Aucune donnée extraite du PDF")>>
               /\ a_pc' = "no_data"
               /\ UNCHANGED <<extracted_data, idx>>
          ELSE /\ extracted_data' = o.list
               /\ idx' = 1
               /\ a_pc' = "loop"
               /\ UNCHANGED errors
    /\ UNCHANGED <<empty_text, formatted_data, src>>
    /\ UNCHANGED notAdapter

\* lines 57-95: one iteration of the record loop.  The except clause calls
\* property_data.get again: on a value that is no mapping the exception
\* leaves the function
FormatRecord ==
    /\ a_pc = "loop"
    /\ idx <= Len(extracted_data)
    /\ LET property_data == extracted_data[idx]
           r == formatted_record(property_data)
       IN  IF ~r.raised
           THEN /\ formatted_data' = Append(formatted_data, r.rec)
                /\ src' = Append(src, idx)
                /\ idx' = idx + 1
                /\ UNCHANGED <<a_pc, errors>>
           ELSE IF property_data.isMapping
           THEN /\ errors' = Append(errors, RecordError(property_data))
                /\ idx' = idx + 1
                /\ UNCHANGED <<a_pc, formatted_data, src>>
           ELSE /\ a_pc' = "raised"
                /\ UNCHANGED <<idx, formatted_data, errors, src>>
    /\ UNCHANGED <<empty_text, extracted_data>>
    /\ UNCHANGED notAdapter

\* line 97
ReturnFormatted ==
    /\ a_pc = "loop"
    /\ idx > Len(extracted_data)
    /\ a_pc' = "done"
    /\ UNCHANGED <<empty_text, extracted_data, idx, formatted_data, errors,
                   src>>
    /\ UNCHANGED notAdapter

-----------------------------------------------------------------------------
(* centris_extractor_correct.py: export_to_xlsx_original *)

Sheet(name, header, rows) == [name |-> name, header |-> header, rows |-> rows]

\* the columns of pd.DataFrame(list of dicts): keys by first appearance
RECURSIVE FrameColumns(_, _)
FrameColumns(rows, seen) ==
    IF rows = <<>> THEN seen
    ELSE LET keys == [i \in DOMAIN rows[1] |-> rows[1][i][1]]
             IsNew(k) == \A j \in DOMAIN seen : seen[j] # k
         IN  FrameColumns(Tail(rows), seen \o SelectSeq(keys, IsNew))

CanonicalSamples ==
    { formatted_record(r).rec : r \in { q \in RawKinds :
                                          ~formatted_record(q).raised } }

ErrorSamples ==
    { DocumentError("Aucune donnée extraite du PDF"),
      RecordError(Listing(Str(<<"3", "3">>), Str(<<>>), Str(<<>>))) }

ExportIdle ==
    /\ e_pc = "idle" /\ data = <<>> /\ xl_errors = <<>> /\ sheets = <<>>
    /\ result = FALSE

ExportInit ==
    /\ e_pc = "export"
    /\ data \in UNION { [1..n -> CanonicalSamples] : n \in 0..MaxRows }
    /\ xl_errors \in UNION { [1..n -> ErrorSamples] : n \in 0..MaxRows }
    /\ sheets = <<>>
    /\ result = FALSE

\* lines 136-158: the data sheet, written only when data is not empty
DataSheets(d) ==
    IF d # <<>> THEN <<Sheet("Sheet1", columns_order, Len(d))>> ELSE <<>>

\* lines 177-179
ErrorSheets(e) ==
    IF e # <<>> THEN <<Sheet("Erreurs", FrameColumns(e, <<>>), Len(e))>>
    ELSE <<>>

\* lines 133-184: the writer saves on leaving the with block; saving a
\* workbook without a sheet raises, as does a failing write.  Any exception
\* is caught and False is returned.
Export ==
    /\ e_pc = "export"
    /\ LET written == DataSheets(data) \o ErrorSheets(xl_errors) IN
       \/ /\ written # <<>>
          /\ sheets' = written
          /\ result' = TRUE
       \/ /\ sheets' = <<>>
          /\ result' = FALSE
    /\ e_pc' = "done"
    /\ UNCHANGED <<data, xl_errors>>
    /\ UNCHANGED notExport

-----------------------------------------------------------------------------
(* The specification *)

Init ==
    \/ /\ op = "handler"
       /\ HandlerInit /\ PdfIdle /\ AdapterIdle /\ ExportIdle /\ PriceIdle
    \/ /\ op = "pdf"
       /\ HandlerIdle /\ PdfInit /\ AdapterIdle /\ ExportIdle /\ PriceIdle
    \/ /\ op = "adapter"
       /\ HandlerIdle /\ PdfIdle /\ AdapterInit /\ ExportIdle /\ PriceIdle
    \/ /\ op = "export"
       /\ HandlerIdle /\ PdfIdle /\ AdapterIdle /\ ExportInit /\ PriceIdle
    \/ /\ op = "price"
       /\ HandlerIdle /\ PdfIdle /\ AdapterIdle /\ ExportIdle /\ PriceInit

Next ==
    \/ ValidateType
    \/ CheckSize
    \/ ReadContent
    \/ CreateTemp
    \/ WriteTemp
    \/ Extract
    \/ Finally
    \/ OpenPdf
    \/ ReadPage
    \/ ReadPageFails
    \/ Assemble
    \/ ExtractFromPdf
    \/ FormatRecord
    \/ ReturnFormatted
    \/ Export
    \/ FormatOnce
    \/ FormatTwice

Spec == Init /\ [][Next]_vars

-----------------------------------------------------------------------------
(* Properties *)

\* the file name ends in ".pdf", in any letter case
IndicatesPdf(name) ==
    ~name.isNone /\ EndsWithAnyCase(name.chars, <<".", "p", "d", "f">>)

\* C1: in every terminal state of the extract_pdf handler (200, 400, 413,
\* 422, 500, a failed write into the temporary file included) no temporary
\* file created by the request still exists.
C1_TempReleasedOnEveryExit ==
    h_pc \in Terminal => created \cap fs = {}

\* C2: an upload whose file name does not indicate a PDF, or which carries
\* more than 10 MB, never reaches extract_pdf_data and never gets a
\* temporary file, whether or not it reports a size.
C2_InvalidUploadNeverExtracted ==
    (op = "handler"
       /\ (~IndicatesPdf(filename) \/ content_len > 10 * 1024 * 1024))
    => (~extract_called /\ created = {})

\* C3: when the PDF cannot be opened or parsed at all, either extraction
\* path returns an empty record sequence and exactly one error entry, kept
\* outside the record sequence.
C3_DocumentFailureOutsideRecords ==
    /\ a_pc = "extract_raised" => (formatted_data = <<>> /\ Len(errors) = 1)
    /\ p_pc = "open_failed" => properties = <<>>

\* the raw records of extracted_data that fail assembly or price formatting
FailingRecords == { i \in DOMAIN extracted_data :
                      formatted_record(extracted_data[i]).raised }

\* C4: extract_to_original_format returns normally whatever records fail;
\* with n raw records of which f fail it returns n-f canonical records in
\* their original order and f error entries.
C4_RecordFailuresIsolated ==
    /\ a_pc # "raised"
    /\ a_pc = "done" =>
         /\ Len(formatted_data)
              = Len(extracted_data) - Cardinality(FailingRecords)
         /\ Len(errors) = Cardinality(FailingRecords)
         /\ \A i, j \in DOMAIN src : i < j => src[i] < src[j]
         /\ \A i \in DOMAIN src : src[i] \notin FailingRecords

IsPlaceholder(rec) ==
    /\ rec.type = "Propriété extraite"
    /\ \E i \in DOMAIN sample_addresses : rec.address = <<sample_addresses[i]>>

\* C5: a document without any address match makes extract_pdf_data return
\* between one and three records, every one a flagged placeholder, whatever
\* price matches the text holds.
C5_NoAddressGivesPlaceholders ==
    (p_pc = "done" /\ FindAddresses(full_text) = <<>>)
    => /\ Len(properties) >= 1
       /\ Len(properties) <= 3
       /\ \A i \in DOMAIN properties : IsPlaceholder(properties[i])

\* C5 witness: no address, more than three price matches, one of them
\* reformatted into a placeholder
C5_Witness ==
    /\ p_pc = "done"
    /\ FindAddresses(full_text) = <<>>
    /\ Len(FindPrices(full_text)) > 3
    /\ properties[1].price = <<"1", " ", "5", "0", "0", "$">>

C7_IndexAlignedPairing ==
    LET addresses == FindAddresses(full_text)
        prices    == FindPrices(full_text)
    IN  (p_pc = "done" /\ Len(addresses) >= 1)
        => /\ Len(properties) = Min(Len(addresses), 10)
           /\ \A k \in DOMAIN properties :
                /\ properties[k].street = Strip(addresses[k][1])
                /\ properties[k].city = Strip(addresses[k][2])
                /\ properties[k].address
                     = Strip(addresses[k][1]) \o <<", ">>
                         \o Strip(addresses[k][2])
                /\ k <= Len(prices)
                /\ properties[k].price = prices[k] \o <<"$">>
           /\ \A j \in DOMAIN addresses :
                j > 10 => \A k \in DOMAIN properties :
                             properties[k].street # Strip(addresses[j][1])

\* C7 witness: more than ten address matches, and a price match that is
\* not a civic number among the first ten
C7_Witness ==
    /\ p_pc = "done"
    /\ Len(FindAddresses(full_text)) > 10
    /\ Len(properties) = 10
    /\ \E k \in DOMAIN properties :
          properties[k].price = <<"4", "5", "0", " ", "0", "0", "0", "$">>

\* C8: the exported workbook has one sheet for records without errors, and
\* two sheets whenever there are errors, the error sheet having one row per
\* error entry.
C8_SheetCounts ==
    (e_pc = "done" /\ result)
    => /\ (data # <<>> /\ xl_errors = <<>>) => Len(sheets) = 1
       /\ xl_errors # <<>>
            => /\ Len(sheets) = 2
               /\ sheets[2].name = "Erreurs"
               /\ sheets[2].rows = Len(xl_errors)

\* C9: every canonical record has exactly the 11 declared keys in the
\* declared order; a field absent from the raw record is the empty string.
C9_CanonicalKeys ==
    \A i \in DOMAIN formatted_data :
        LET rec == formatted_data[i]
            raw == extracted_data[src[i]]
        IN  /\ Len(rec) = 11
            /\ [j \in DOMAIN rec |-> rec[j][1]] = columns_order
            /\ \A j \in DOMAIN rec :
                 (columns_order[j] \in RawKeys
                    /\ raw.f[columns_order[j]] = Absent)
                 => rec[j][2] = Str(<<>>)
            /\ Cardinality({ j \in DOMAIN rec : rec[j][2] = Str(<<>>) })
                 >= Cardinality({ k \in RawKeys : raw.f[k] = Absent })

\* C9 witness: a canonical record built from a raw record holding some of
\* the fields and lacking others, an owner among the latter
C9_Witness ==
    /\ a_pc = "done"
    /\ Len(formatted_data) = 1
    /\ extracted_data[1].f["Propriétaire(s)"] = Absent
    /\ extracted_data[1].f["Quartier"] # Absent
    /\ Cardinality({ k \in RawKeys : extracted_data[1].f[k] = Absent }) = 4

\* C10: _format_price(_format_price(x)) = _format_price(x) for every
\* string x.
C10_FormatPriceIdempotent ==
    f_pc = "twice" => twice = once

\* C10 witness: a string without '$' whose digits were regrouped, formatted
\* twice
C10_Witness ==
    /\ f_pc = "twice"
    /\ price_str = <<"1", "0", " ", "0", "0">>
    /\ once = <<"1", " ", "0", "0", "0", " ", "$">>

\* out is the digits d, a single space before every group of three digits
\* counted from the right, then " $"
IsGroupedPrice(out, d) ==
    LET n    == Len(d) + ((Len(d) - 1) \div 3)
        body == SubSeq(out, 1, n)
        NotSpace(c) == c # " "
    IN  /\ Len(out) = n + 2
        /\ out[n + 1] = " "
        /\ out[n + 2] = "$"
        /\ \A i \in 1..n : (body[i] = " ") <=> ((n - i + 1) % 4 = 0)
        /\ SelectSeq(body, NotSpace) = d

DigitOnly(s) == s # <<>> /\ \A i \in 1..Len(s) : IsDigit(s[i])

\* the decimal digits of the number d writes: leading zeros dropped
RECURSIVE DropLeadingZeros(_)
DropLeadingZeros(d) ==
    IF Len(d) > 1 /\ d[1] = "0" THEN DropLeadingZeros(Tail(d)) ELSE d

\* C11 as stated: for every non-empty digit-only string, leading zeros
\* included, _format_price returns the digits of the input with a single
\* space every three digits from the right, followed by " $".
C11_DigitsGroupedAsGiven ==
    (f_pc # "start" /\ DigitOnly(price_str))
    => IsGroupedPrice(once, price_str)

\* C11 amended: for every non-empty digit-only string _format_price returns
\* the decimal digits of the integer the string denotes (leading zeros
\* dropped, "0" for a string of zeros) with a single space every three
\* digits from the right, followed by " $".
C11_IntegerDigitsGrouped ==
    (f_pc # "start" /\ DigitOnly(price_str))
    => IsGroupedPrice(once, DropLeadingZeros(price_str))

\* C11 witness: a digit-only string with a leading zero and more than three
\* significant digits has been formatted
C11_Witness ==
    /\ f_pc = "once"
    /\ price_str = <<"0", "1", "0", "0", "1">>
    /\ once = <<"1", " ", "0", "0", "1", " ", "$">>

=============================================================================
